---- MODULE Spec2Model ----
(***************************************************************************)
(* A model of main.py, the Streamlit script of the PDF assistant.          *)
(*                                                                         *)
(* Streamlit re-executes the whole script, top to bottom, on every user    *)
(* interaction.  One action of this model is one such script run, started  *)
(* by one interaction (a file chosen in the uploader, a button pressed, a  *)
(* text typed, a radio option picked).  A run ends at the last line or at  *)
(* the first uncaught exception; st.session_state and the widget values    *)
(* survive from run to run.                                                *)
(***************************************************************************)
EXTENDS Integers, Sequences, FiniteSets, TLC

\* The longest question list the inference endpoint returns in the model.
MaxQuestions == 2

(***************************************************************************)
(* Python values                                                           *)
(***************************************************************************)

\* Python's None where the value is a string label or a file.
None == "None"

\* The empty dict of line 16 and line 152.
EmptyDict == [k \in {} |-> None]

\* d[k] = v (line 163): the entry for k is created or overwritten.
DictSet(d, k, v) == [x \in (DOMAIN d) \cup {k} |-> IF x = k THEN v ELSE d[x]]

\* d.get(k) (line 168): None when k has no entry.
DictGet(d, k) == IF k \in DOMAIN d THEN d[k] ELSE None

\* `a or b` on strings (line 149): a when a is non-empty, b otherwise.
PyOr(a, b) == IF a # "" THEN a ELSE b

(***************************************************************************)
(* JSON values the model's reply can decode to                             *)
(***************************************************************************)

\* An options object, in key order: a sequence of <<key, text>> pairs.
FullOptions == << <<"A", "a">>, <<"B", "b">>, <<"C", "c">>, <<"D", "d">> >>
TwoOptions == << <<"A", "a">>, <<"B", "b">> >>

\* list(q['options'].keys()) (line 160)
Keys(options) == [j \in 1..Len(options) |-> options[j][1]]

KeySet(options) == {options[j][1] : j \in 1..Len(options)}

\* q['options'][x] (lines 161, 174), for a key x of the object
OptionText(options, x) ==
    LET j == CHOOSE j \in 1..Len(options) : options[j][1] = x IN options[j][2]

\* A question object: `fields` are the keys the JSON object has.
AllFields == {"question", "options", "correct_answer"}

Question(fields, text, options, correct) ==
    [fields |-> fields, question |-> text, options |-> options,
     correct_answer |-> correct]

Has(q, f) == f \in q.fields

QA == Question(AllFields, "Q1", FullOptions, "A")
QB == Question(AllFields, "Q2", FullOptions, "B")
QNoText == Question(AllFields \ {"question"}, "", FullOptions, "A")
QNoOptions == Question(AllFields \ {"options"}, "Q3", << >>, "A")
QTwoOptions == Question(AllFields, "Q4", TwoOptions, "B")
QNoCorrect == Question(AllFields \ {"correct_answer"}, "Q5", FullOptions, "")
QBadCorrect == Question(AllFields, "Q6", FullOptions, "Correct option letter")

ValidQuestions == {QA, QB}
DefectQuestions == {QNoText, QNoOptions, QTwoOptions, QNoCorrect, QBadCorrect}

SeqsUpTo(S, n) == UNION {[1..k -> S] : k \in 0..n}

\* The question lists of the replies: well-formed ones of every length up to
\* MaxQuestions in which no question follows itself, and ones that end in a
\* question with a defect.
ValidLists ==
    {s \in SeqsUpTo(ValidQuestions, MaxQuestions) :
        \A j \in 1..(Len(s) - 1) : s[j] # s[j + 1]}

DefectLists == {Append(s, d) : s \in {<< >>, <<QA>>}, d \in DefectQuestions}

QuestionLists == ValidLists \cup DefectLists

\* A decoded JSON value.  kind "null" is None; "falsy" is a value Python
\* treats as false ({}, [], 0, ""); "list" is a true value that is no
\* object ([1]); "dict" is a non-empty object, with or without "questions".
Json(kind, hasQuestions, questions) ==
    [kind |-> kind, hasQuestions |-> hasQuestions, questions |-> questions]

JsonNull == Json("null", FALSE, << >>)
JsonFalsy == Json("falsy", FALSE, << >>)
JsonList == Json("list", FALSE, << >>)
JsonNoQuestions == Json("dict", FALSE, << >>)
JsonQuiz(qs) == Json("dict", TRUE, qs)

JsonValues ==
    {JsonNull, JsonFalsy, JsonList, JsonNoQuestions}
      \cup {JsonQuiz(qs) : qs \in QuestionLists}

\* Python truth of a decoded value (lines 92, 156)
Truthy(v) == v.kind \in {"list", "dict"}

(***************************************************************************)
(* Texts                                                                   *)
(***************************************************************************)

\* The text of a model reply: empty, prose that is no JSON, or the JSON
\* text of a value.
Text(empty, isJson, json) == [empty |-> empty, isJson |-> isJson, json |-> json]

EmptyText == Text(TRUE, FALSE, JsonNull)
ProseText == Text(FALSE, FALSE, JsonNull)
JsonText(v) == Text(FALSE, TRUE, v)

\* json.loads(response) (line 94): the value, or JSONDecodeError
JsonLoads(text) ==
    IF text.isJson THEN [raised |-> FALSE, value |-> text.json]
    ELSE [raised |-> TRUE, value |-> JsonNull]

\* A value that is a text or None (the summary; query_ollama's result).
PyNone == [isNone |-> TRUE, text |-> EmptyText]
PyStr(t) == [isNone |-> FALSE, text |-> t]

\* Python truth of a text-or-None (lines 92, 111, 177)
TruthyStr(s) == ~s.isNone /\ ~s.text.empty

(***************************************************************************)
(* Text extraction (lines 22-45)                                           *)
(***************************************************************************)

\* Declared types the uploader accepts (line 121): one that is read as it
\* is, one that goes through convert_to_pdf first.
FileTypes == {"pdf", "docx"}

\* What the converters and the PDF reader do with the uploaded bytes is
\* outside the script: each either succeeds or raises.
DocTexts == {"", "doc"}

FileEnvs ==
    {[convertOk |-> TRUE, readOk |-> TRUE, text |-> t] : t \in DocTexts}
      \cup {[convertOk |-> FALSE, readOk |-> TRUE, text |-> ""],
            [convertOk |-> TRUE, readOk |-> FALSE, text |-> ""]}

\* convert_to_pdf: Presentation(...) / convert(...) raise or produce a path.
convert_to_pdf(file, env) == [raised |-> ~env.convertOk]

\* extract_text_from_pdf: PdfReader raises, or the pages' text is joined.
extract_text_from_pdf(env) ==
    IF env.readOk THEN [raised |-> FALSE, text |-> env.text]
    ELSE [raised |-> TRUE, text |-> ""]

\* The Process File handler, lines 125-133.  No exception is caught.
ProcessHandler(file, env) ==
    LET conv == IF file = "pdf" THEN [raised |-> FALSE]
                ELSE convert_to_pdf(file, env)
    IN IF conv.raised THEN [raised |-> TRUE, text |-> ""]
       ELSE extract_text_from_pdf(env)

(***************************************************************************)
(* The inference client and the prompt builders (lines 47-115)             *)
(***************************************************************************)

\* st.number_input(min_value=1, value=5), line 140, left at its value.
DefaultQuestions == 5

\* The task strings of lines 66-87 and 104-106, by what they are built from.
QuizTask(context, num_questions) ==
    [kind |-> "Quiz", context |-> context, num_questions |-> num_questions]

SummaryTask(context) ==
    [kind |-> "Summary", context |-> context, num_questions |-> 0]

\* The body posted to the endpoint, lines 49-53.
OllamaRequest(context, task) ==
    [model |-> "llama3.1", context |-> context, task |-> task, stream |-> FALSE]

NoRequest == OllamaRequest("", SummaryTask(""))

\* What the endpoint does with one request: the connection fails, the
\* status is not 200, the body of a 200 is no JSON object with a "response"
\* field, or the body carries a response text.
Reply(net, text) == [net |-> net, text |-> text]

FailedReplies == {Reply(n, EmptyText) : n \in {"refused", "status", "badbody"}}

QuizReplies ==
    FailedReplies \cup {Reply("ok", EmptyText), Reply("ok", ProseText)}
      \cup {Reply("ok", JsonText(v)) : v \in JsonValues}

SummaryReplies ==
    FailedReplies \cup {Reply("ok", EmptyText), Reply("ok", ProseText)}

\* query_ollama, lines 54-63.  Only RequestException is caught: a body that
\* json.loads or ["response"] rejects raises out of the function.
query_ollama(context, task, reply) ==
    CASE reply.net = "refused" ->
           [raised |-> FALSE, value |-> PyNone, errors |-> {"Connection Error"}]
      [] reply.net = "status" ->
           [raised |-> FALSE, value |-> PyNone, errors |-> {"API Error"}]
      [] reply.net = "badbody" ->
           [raised |-> TRUE, value |-> PyNone, errors |-> {}]
      [] OTHER ->
           [raised |-> FALSE, value |-> PyStr(reply.text), errors |-> {}]

\* generate_quiz, lines 89-101: the decoded value is returned as it is.
generate_quiz(context, num_questions, reply) ==
    LET r == query_ollama(context, QuizTask(context, num_questions), reply)
    IN IF r.raised THEN [raised |-> TRUE, value |-> JsonNull, errors |-> r.errors]
       ELSE IF TruthyStr(r.value)
       THEN LET j == JsonLoads(r.value.text)
            IN IF j.raised
               THEN [raised |-> FALSE, value |-> JsonNull,
                     errors |-> r.errors \cup {"Failed to decode quiz response"}]
               ELSE [raised |-> FALSE, value |-> j.value, errors |-> r.errors]
       ELSE [raised |-> FALSE, value |-> JsonNull,
             errors |-> r.errors \cup {"Failed to generate a valid quiz"}]

\* summarize_content, lines 108-115
summarize_content(context, reply) ==
    LET r == query_ollama(context, SummaryTask(context), reply)
    IN IF r.raised THEN [raised |-> TRUE, value |-> PyNone, errors |-> r.errors]
       ELSE IF TruthyStr(r.value)
       THEN [raised |-> FALSE, value |-> r.value, errors |-> r.errors]
       ELSE [raised |-> FALSE, value |-> PyNone,
             errors |-> r.errors \cup {"Failed to generate a summary"}]

(***************************************************************************)
(* The quiz form and Check Answers (lines 156-175)                         *)
(***************************************************************************)

\* What st.radio(..., options, key=f"q{i}") returns (lines 159-162): the
\* value the widget with that key and those options holds from the page
\* before, or the first option for a widget that is new on this page.
RadioValue(widgets, i, options) ==
    IF i \in DOMAIN widgets /\ widgets[i].keys = Keys(options)
    THEN widgets[i].value
    ELSE IF Len(options) = 0 THEN None ELSE options[1][1]

\* RecordAnswer with the slip of writing only a missing entry
\* (user_answers.setdefault(i, answer)).
RecordAnswerKeepsFirst(sheet, i, answer) ==
    IF i \in DOMAIN sheet THEN sheet ELSE DictSet(sheet, i, answer)

\* session_state.user_answers[i] = answer (line 163)
RecordAnswer(sheet, i, answer) == DictSet(sheet, i, answer)

\* The loop of lines 157-163 from question i (0-based) on.  q['question']
\* (line 158) and q['options'] (line 160) raise KeyError on a question that
\* lacks the field; the questions before it have been recorded by then.
RECURSIVE RenderLoop(_, _, _, _)
RenderLoop(questions, widgets, i, acc) ==
    IF i = Len(questions) THEN acc
    ELSE LET q == questions[i + 1] IN
         IF ~Has(q, "question") \/ ~Has(q, "options")
         THEN [acc EXCEPT !.raised = TRUE]
         ELSE LET answer == RadioValue(widgets, i, q.options) IN
              RenderLoop(questions, widgets, i + 1,
                  [acc EXCEPT
                     !.user_answers = RecordAnswer(@, i, answer),
                     !.shown = DictSet(@, i, [keys |-> Keys(q.options),
                                              value |-> answer])])

\* Lines 156-163: nothing for a false quiz; quiz["questions"] raises on a
\* value that is no object (TypeError) or has no such key (KeyError).
RenderQuiz(quizv, sheet, widgets) ==
    LET start == [raised |-> FALSE, user_answers |-> sheet, shown |-> EmptyDict]
    IN IF ~Truthy(quizv) THEN start
       ELSE IF quizv.kind # "dict" \/ ~quizv.hasQuestions
       THEN [start EXCEPT !.raised = TRUE]
       ELSE RenderLoop(quizv.questions, widgets, 0, start)

\* The per-question lines of Check Answers (lines 171 and 174).
Correct == [verdict |-> "Correct", label |-> "", text |-> ""]
Incorrect(label, text) == [verdict |-> "Incorrect", label |-> label, text |-> text]

NoReport == [raised |-> FALSE, shown |-> FALSE, results |-> << >>,
             score |-> 0, total |-> 0]

\* CheckLoop with the slip of counting a question in both branches.
RECURSIVE CheckLoopCountsAll(_, _, _, _)
CheckLoopCountsAll(questions, sheet, i, acc) ==
    IF i = Len(questions) THEN acc
    ELSE LET q == questions[i + 1]
             user_answer == DictGet(sheet, i)
         IN IF ~Has(q, "correct_answer") THEN [acc EXCEPT !.raised = TRUE]
            ELSE IF user_answer = q.correct_answer
            THEN CheckLoopCountsAll(questions, sheet, i + 1,
                     [acc EXCEPT !.results = Append(@, Correct),
                                 !.score = @ + 1])
            ELSE IF q.correct_answer \notin KeySet(q.options)
            THEN [acc EXCEPT !.raised = TRUE]
            ELSE CheckLoopCountsAll(questions, sheet, i + 1,
                     [acc EXCEPT !.results = Append(@,
                         Incorrect(q.correct_answer,
                                   OptionText(q.options, q.correct_answer))),
                                 !.score = @ + 1])

\* The loop of lines 167-174 from question i (0-based) on.  q['correct_answer']
\* (line 169) raises on a question without the field, and
\* q['options'][correct_answer] (line 174) on a label that is no option key.
RECURSIVE CheckLoop(_, _, _, _)
CheckLoop(questions, sheet, i, acc) ==
    IF i = Len(questions) THEN acc
    ELSE LET q == questions[i + 1]
             user_answer == DictGet(sheet, i)
         IN IF ~Has(q, "correct_answer") THEN [acc EXCEPT !.raised = TRUE]
            ELSE IF user_answer = q.correct_answer
            THEN CheckLoop(questions, sheet, i + 1,
                     [acc EXCEPT !.results = Append(@, Correct),
                                 !.score = @ + 1])
            ELSE IF q.correct_answer \notin KeySet(q.options)
            THEN [acc EXCEPT !.raised = TRUE]
            ELSE CheckLoop(questions, sheet, i + 1,
                     [acc EXCEPT !.results = Append(@,
                         Incorrect(q.correct_answer,
                                   OptionText(q.options, q.correct_answer)))])

\* Lines 166-175: the score line (line 175) is written when the loop ends.
CheckAnswersHandler(quizv, sheet) ==
    LET r == CheckLoop(quizv.questions, sheet, 0, NoReport)
    IN IF r.raised THEN r
       ELSE [r EXCEPT !.shown = TRUE, !.total = Len(quizv.questions)]

\* The radio widgets' values after a run: a widget keeps its value from run
\* to run for as long as the runs put it on the page.
WidgetsAfterRun(shown) == shown

\* Lines 142-175 without the Generate handler: the section is shown when
\* there is a context; the form is rendered, then Check Answers runs when
\* its button was pressed.  `exception` names where the run stopped.
Page(text, prompt, quizv, sheet, widgets, checkPressed) ==
    IF text = "" /\ prompt = ""
    THEN [exception |-> None, user_answers |-> sheet,
          radio |-> WidgetsAfterRun(EmptyDict), report |-> NoReport]
    ELSE LET r == RenderQuiz(quizv, sheet, widgets) IN
         IF r.raised
         THEN [exception |-> "render", user_answers |-> r.user_answers,
               radio |-> WidgetsAfterRun(r.shown),
               report |-> NoReport]
         ELSE IF checkPressed /\ Truthy(quizv)
         THEN LET c == CheckAnswersHandler(quizv, r.user_answers) IN
              [exception |-> IF c.raised THEN "check" ELSE None,
               user_answers |-> r.user_answers,
               radio |-> WidgetsAfterRun(r.shown),
               report |-> c]
         ELSE [exception |-> None, user_answers |-> r.user_answers,
               radio |-> WidgetsAfterRun(r.shown),
               report |-> NoReport]

(***************************************************************************)
(* The Generate handler (lines 148-154)                                    *)
(***************************************************************************)

\* ResolveContext with the operands of `or` exchanged.
ResolveContextDocumentFirst(custom, text) == PyOr(text, custom)

\* context = custom_prompt or pdf_text (line 149)
ResolveContext(custom, text) == PyOr(custom, text)

\* The session fields the handler reads and writes.
Session(quizv, sheet, summ) ==
    [quiz |-> quizv, user_answers |-> sheet, summary |-> summ]

\* GenerateQuizBranch without the reset of line 152.
GenerateQuizKeepsSheet(st, context, num_questions, reply) ==
    LET g == generate_quiz(context, num_questions, reply)
    IN IF g.raised THEN [raised |-> TRUE, st |-> st, errors |-> g.errors]
       ELSE [raised |-> FALSE, st |-> [st EXCEPT !.quiz = g.value],
             errors |-> g.errors]

\* Lines 151-152.  An exception out of generate_quiz leaves both
\* assignments undone; any value it returns is stored, None included.
GenerateQuizBranch(st, context, num_questions, reply) ==
    LET g == generate_quiz(context, num_questions, reply)
    IN IF g.raised THEN [raised |-> TRUE, st |-> st, errors |-> g.errors]
       ELSE [raised |-> FALSE,
             st |-> [st EXCEPT !.quiz = g.value, !.user_answers = EmptyDict],
             errors |-> g.errors]

\* GenerateSummaryBranch with the slip of clearing the quiz as well.
GenerateSummaryDropsQuiz(st, context, reply) ==
    LET r == summarize_content(context, reply)
    IN IF r.raised THEN [raised |-> TRUE, st |-> st, errors |-> r.errors]
       ELSE [raised |-> FALSE,
             st |-> [st EXCEPT !.summary = r.value, !.quiz = JsonNull],
             errors |-> r.errors]

\* Line 154.
GenerateSummaryBranch(st, context, reply) ==
    LET r == summarize_content(context, reply)
    IN IF r.raised THEN [raised |-> TRUE, st |-> st, errors |-> r.errors]
       ELSE [raised |-> FALSE, st |-> [st EXCEPT !.summary = r.value],
             errors |-> r.errors]

\* Lines 149-154.
GenerateHandler(st, content_type, custom, text, num_questions, reply) ==
    LET context == ResolveContext(custom, text)
    IN IF content_type = "Quiz"
       THEN GenerateQuizBranch(st, context, num_questions, reply)
       ELSE GenerateSummaryBranch(st, context, reply)

\* The request the handler's query_ollama call posts (lines 49-55).
GenerateRequest(content_type, custom, text, num_questions) ==
    LET context == ResolveContext(custom, text)
    IN OllamaRequest(context,
           IF content_type = "Quiz" THEN QuizTask(context, num_questions)
           ELSE SummaryTask(context))

(***************************************************************************)
(* The session                                                             *)
(***************************************************************************)

VARIABLES
    uploaded_file,  \* the file in the uploader (line 121), or None
    pdf_text,       \* st.session_state.pdf_text
    custom_prompt,  \* the text area's value = st.session_state.custom_prompt
    quiz,           \* st.session_state.quiz: a decoded JSON value, or None
    user_answers,   \* st.session_state.user_answers
    summary,        \* st.session_state.summary
    radio,          \* the values of the radio widgets q0, q1, ...
    exception,      \* where the last run was stopped by an exception, or None
    errors,         \* the st.error messages of the last run, lines 59-114
    request,        \* the body the last run posted to the endpoint
    report,         \* what Check Answers wrote in the last run
    picked,         \* history: the radio option whose pick started the last run
    discarded       \* history: the sheet indices line 152 dropped in the last run

vars == <<uploaded_file, pdf_text, custom_prompt, quiz, user_answers, summary,
          radio, exception, errors, request, report, picked, discarded>>

NoPick == [index |-> -1, label |-> ""]

\* Lines 11-20, and the first run of the script, which shows an empty page.
Init ==
    /\ uploaded_file = None
    /\ pdf_text = ""
    /\ custom_prompt = ""
    /\ quiz = JsonNull
    /\ user_answers = EmptyDict
    /\ summary = PyStr(EmptyText)
    /\ radio = EmptyDict
    /\ exception = None
    /\ errors = {}
    /\ request = NoRequest
    /\ report = NoReport
    /\ picked = NoPick
    /\ discarded = {}

\* The widgets the last run put on the page: those above the line where
\* it stopped.
PromptShown == exception # "process"

GenerateShown == PromptShown /\ (pdf_text # "" \/ custom_prompt # "")

FormShown == GenerateShown /\ exception # "generate"

ShownRadios ==
    IF FormShown THEN DOMAIN RenderQuiz(quiz, user_answers, radio).shown ELSE {}

CheckShown ==
    /\ FormShown
    /\ Truthy(quiz)
    /\ ~RenderQuiz(quiz, user_answers, radio).raised

\* The rest of a run once lines 123-154 are through.
RunPage(text, prompt, quizv, sheet, widgets, checkPressed) ==
    \E p \in {Page(text, prompt, quizv, sheet, widgets, checkPressed)} :
       /\ user_answers' = p.user_answers
       /\ radio' = p.radio
       /\ exception' = p.exception
       /\ report' = p.report

\* A file is chosen in the uploader, or the chosen one is removed.
Upload(f) ==
    /\ f # uploaded_file
    /\ uploaded_file' = f
    /\ RunPage(pdf_text, custom_prompt, quiz, user_answers, radio, FALSE)
    /\ errors' = {}
    /\ request' = NoRequest
    /\ picked' = NoPick
    /\ discarded' = {}
    /\ UNCHANGED <<pdf_text, custom_prompt, quiz, summary>>

\* "Process File" is pressed (lines 123-133).
ProcessFile(env) ==
    /\ uploaded_file # None
    /\ \E r \in {ProcessHandler(uploaded_file, env)} :
       IF r.raised
       THEN /\ exception' = "process"
            /\ report' = NoReport
            /\ radio' = WidgetsAfterRun(EmptyDict)
            /\ UNCHANGED <<pdf_text, user_answers>>
       ELSE /\ pdf_text' = r.text
            /\ RunPage(r.text, custom_prompt, quiz, user_answers, radio, FALSE)
    /\ errors' = {}
    /\ request' = NoRequest
    /\ picked' = NoPick
    /\ discarded' = {}
    /\ UNCHANGED <<uploaded_file, custom_prompt, quiz, summary>>

\* The custom prompt is typed or cleared (line 137).
EditPrompt(p) ==
    /\ PromptShown
    /\ p # custom_prompt
    /\ custom_prompt' = p
    /\ RunPage(pdf_text, p, quiz, user_answers, radio, FALSE)
    /\ errors' = {}
    /\ request' = NoRequest
    /\ picked' = NoPick
    /\ discarded' = {}
    /\ UNCHANGED <<uploaded_file, pdf_text, quiz, summary>>

\* "Generate" is pressed with the content type and the number of questions
\* chosen on the page (lines 140-154), and the endpoint answers with reply.
Generate(content_type, num_questions, reply) ==
    /\ GenerateShown
    /\ \E g \in {GenerateHandler(Session(quiz, user_answers, summary),
                    content_type, custom_prompt, pdf_text, num_questions, reply)} :
          /\ quiz' = g.st.quiz
          /\ summary' = g.st.summary
          /\ errors' = g.errors
          /\ discarded' = IF content_type = "Quiz" /\ ~g.raised
                          THEN DOMAIN user_answers ELSE {}
          /\ IF g.raised
             THEN /\ exception' = "generate"
                  /\ report' = NoReport
                  /\ user_answers' = g.st.user_answers
                  /\ radio' = WidgetsAfterRun(EmptyDict)
             ELSE RunPage(pdf_text, custom_prompt, g.st.quiz,
                          g.st.user_answers, radio, FALSE)
    /\ request' = GenerateRequest(content_type, custom_prompt, pdf_text,
                                  num_questions)
    /\ picked' = NoPick
    /\ UNCHANGED <<uploaded_file, pdf_text, custom_prompt>>

\* An option of the radio of question i is picked (lines 159-163).
SelectAnswer(i, label) ==
    /\ i \in ShownRadios
    /\ label \in KeySet(quiz.questions[i + 1].options)
    /\ label # radio[i].value
    /\ RunPage(pdf_text, custom_prompt, quiz, user_answers,
               [radio EXCEPT ![i].value = label], FALSE)
    /\ errors' = {}
    /\ request' = NoRequest
    /\ picked' = [index |-> i, label |-> label]
    /\ discarded' = {}
    /\ UNCHANGED <<uploaded_file, pdf_text, custom_prompt, quiz, summary>>

\* "Check Answers" is pressed (lines 165-175).
CheckAnswers ==
    /\ CheckShown
    /\ RunPage(pdf_text, custom_prompt, quiz, user_answers, radio, TRUE)
    /\ errors' = {}
    /\ request' = NoRequest
    /\ picked' = NoPick
    /\ discarded' = {}
    /\ UNCHANGED <<uploaded_file, pdf_text, custom_prompt, quiz, summary>>

\* Any radio on the page can be set to any of its options.
SelectSomeAnswer ==
    \E i \in ShownRadios : \E label \in {"A", "B", "C", "D"} :
        SelectAnswer(i, label)

\* What the user types into the text area of line 137.
Prompts == {"", "topic"}

Next ==
    \/ \E f \in FileTypes \cup {None} : Upload(f)
    \/ \E env \in FileEnvs : ProcessFile(env)
    \/ \E p \in Prompts : EditPrompt(p)
    \/ \E reply \in QuizReplies : Generate("Quiz", DefaultQuestions, reply)
    \/ \E reply \in SummaryReplies : Generate("Summary", DefaultQuestions, reply)
    \/ SelectSomeAnswer
    \/ CheckAnswers

Spec == Init /\ [][Next]_vars

(***************************************************************************)
(* Properties                                                              *)
(***************************************************************************)

\* The shape of a Quiz: every question has a text, exactly the option keys
\* A, B, C, D, and a correct_answer among them.
ValidQuestion(q) ==
    /\ q.fields = AllFields
    /\ Len(q.options) = 4
    /\ KeySet(q.options) = {"A", "B", "C", "D"}
    /\ q.correct_answer \in {"A", "B", "C", "D"}

ValidQuiz(v) ==
    /\ v.kind = "dict"
    /\ v.hasQuestions
    /\ \A j \in 1..Len(v.questions) : ValidQuestion(v.questions[j])

\* The question indices of the stored quiz; none when it has no question list.
QuestionIndices(v) ==
    IF v.kind = "dict" /\ v.hasQuestions THEN 0..(Len(v.questions) - 1) ELSE {}

\* The last run was started by Generate with this content type.
Generated(content_type) ==
    request # NoRequest /\ request.task.kind = content_type

\* C1: when a Generate(Quiz) run has stored a newly parsed quiz, the answer
\* sheet is empty at the end of that run.
C1_SheetEmptyAfterQuizReplaced ==
    (Generated("Quiz") /\ exception # "generate" /\ quiz # JsonNull)
        => user_answers = EmptyDict

\* C2: the stored quiz is absent or has the full shape of a Quiz; a JSON
\* reply that violates the shape never becomes the session's quiz.
C2_StoredQuizAbsentOrValid == quiz = JsonNull \/ ValidQuiz(quiz)

\* C3: the score line Check Answers writes has total = the number of
\* questions and 0 <= score <= total, where score is the number of indices
\* whose recorded label equals the question's correct_answer.
C3_ScoreCountsMatchingAnswers ==
    report.shown =>
        /\ report.total = Len(quiz.questions)
        /\ 0 <= report.score /\ report.score <= report.total
        /\ report.score =
             Cardinality({i \in QuestionIndices(quiz) :
                 DictGet(user_answers, i) = quiz.questions[i + 1].correct_answer})

C3_Witness_MixedScore ==
    report.shown /\ report.total = 2 /\ report.score = 1

\* C4: no run is ended by an uncaught exception, and a Generate(Quiz) run
\* that did not produce a valid quiz has shown an error message.
C4_FailuresAreCaughtAndReported ==
    /\ exception = None
    /\ (Generated("Quiz") /\ ~ValidQuiz(quiz)) => errors # {}

\* C5: the context of the request a Generate run posts is the custom prompt
\* when that is non-empty, and the document text otherwise.
C5_ContextIsPromptElseDocument ==
    request # NoRequest =>
        LET expected == IF custom_prompt # "" THEN custom_prompt ELSE pdf_text
        IN request.context = expected /\ request.task.context = expected

C5_Witness_BothPresent ==
    /\ request # NoRequest
    /\ custom_prompt # "" /\ pdf_text # ""
    /\ request.context = custom_prompt

\* C6: Check Answers never raises.
C6_CheckAnswersNeverRaises == exception # "check"

\* C7: the sheet holds, for an index, the label picked last: the pick that
\* started the run has replaced the entry, every entry is the value its
\* radio holds, and Check Answers marks a question Correct exactly when that
\* value is the correct_answer.
C7_SheetHoldsLatestLabel ==
    /\ picked # NoPick => DictGet(user_answers, picked.index) = picked.label
    /\ \A i \in DOMAIN radio : DictGet(user_answers, i) = radio[i].value
    /\ report.shown =>
         \A i \in QuestionIndices(quiz) :
            (report.results[i + 1].verdict = "Correct")
               <=> (i \in DOMAIN radio
                     /\ radio[i].value = quiz.questions[i + 1].correct_answer)

C7_Witness_PickOverwrites ==
    /\ picked = [index |-> 0, label |-> "C"]
    /\ user_answers[0] = "C"

\* C8: once a quiz is stored, no run leaves the session without one.
C8_LoadedQuizStaysLoaded == [][quiz # JsonNull => quiz' # JsonNull]_vars

\* C9: a Generate(Summary) run leaves the quiz as it was, a Generate(Quiz)
\* run leaves the summary as it was, and neither changes the document text.
C9_QuizAndSummaryIndependent ==
    [][/\ (request' # NoRequest /\ request'.task.kind = "Summary")
            => (quiz' = quiz /\ pdf_text' = pdf_text)
       /\ (request' # NoRequest /\ request'.task.kind = "Quiz")
            => (summary' = summary /\ pdf_text' = pdf_text)]_vars

C9_Witness_BothRetained ==
    /\ Generated("Summary")
    /\ TruthyStr(summary)
    /\ quiz.hasQuestions /\ Len(quiz.questions) > 0

\* C10: the keys of the sheet are indices of the stored quiz's questions, and
\* there are none when no quiz with questions is stored.
C10_SheetKeysAreQuestionIndices ==
    DOMAIN user_answers \subseteq QuestionIndices(quiz)

C10_Witness_ShorterQuiz ==
    /\ discarded = {0, 1}
    /\ quiz.hasQuestions /\ Len(quiz.questions) = 1
    /\ DOMAIN user_answers = {0}

====
